---- MODULE Spec2Model ----
(***************************************************************************)
(* Model of pgmatview's cache-manager background worker                    *)
(* (src/lib/pgmatview_main.c):                                             *)
(*   - cachemgr_main: the worker loop, with its two signal handlers,       *)
(*   - _PG_init: the static registration of the configured workers,        *)
(*   - cachemgr_launch: the dynamic launch of one worker.                  *)
(* Each of the three entry points has its own specification over the       *)
(* shared variables: Spec (worker loop), SpecFail (worker loop whose unit  *)
(* of work may raise an error), SpecLive (worker loop, the worker being    *)
(* scheduled fairly), SpecInit (_PG_init), SpecLaunch (cachemgr_launch)    *)
(* and SpecPool (_PG_init followed by calls of cachemgr_launch).           *)
(***************************************************************************)
EXTENDS Integers, Sequences, FiniteSets, TLC

VARIABLES
    \* ---- cachemgr_main and its signal handlers
    pc,                  \* position of the worker in cachemgr_main
    got_sigterm,         \* static volatile sig_atomic_t got_sigterm
    got_sighup,          \* static volatile sig_atomic_t got_sighup
    latch,               \* MyLatch->is_set
    rc,                  \* result of the last WaitLatch (set of reasons)
    waitTimeout,         \* timeout argument of the WaitLatch in progress
    cachemgr_sleep_time, \* static int cachemgr_sleep_time (GUC variable)
    fileSleep,           \* cachemgr.sleep_time as written in the config file
    postmasterAlive,     \* the parent process is alive
    xactOpen,            \* StartTransactionCommand .. CommitTransactionCommand
    spiConnected,        \* SPI_connect .. SPI_finish
    snapshotActive,      \* PushActiveSnapshot .. PopActiveSnapshot
    exitStatus,          \* argument of proc_exit, -1 while running
    exitVia,             \* which proc_exit ended the worker
    lastCycle,           \* history: state of the most recent work cycle
    sigtermAt,           \* history: pc at the first SIGTERM delivery
    cycleBeganWithTerm,  \* history: got_sigterm when the last cycle began
    hist,                \* history: what the worker has done (see HistInit)
    \* ---- _PG_init
    initPc,              \* position in _PG_init
    preload,             \* process_shared_preload_libraries_in_progress
    cfgWorkerCount,      \* cachemgr.worker_count as configured
    cfgRejected,         \* the configured value was refused by the GUC check
    cachemgr_worker_count, \* static int cachemgr_worker_count
    i,                   \* loop counter of _PG_init
    registry,            \* workers handed to the host, in order
    \* ---- cachemgr_launch
    launchPc,            \* position in cachemgr_launch
    launchArg,           \* PG_GETARG_INT32( 0 )
    worker,              \* BackgroundWorker worker (the spec being built)
    handle,              \* BackgroundWorkerHandle * (TRUE when obtained)
    hostStatus,          \* status of the new worker at the host
    reportedPid,         \* pid the host reports for the new worker
    status,              \* BgwHandleStatus status
    pid,                 \* pid_t pid (local, uninitialized until set)
    result,              \* what the call gave its caller
    launches,            \* number of finished calls
    errcodeSeen          \* history: error code raised for each status

workerVars == << pc, got_sigterm, got_sighup, latch, rc, waitTimeout,
                 cachemgr_sleep_time, fileSleep, postmasterAlive, xactOpen,
                 spiConnected, snapshotActive, exitStatus, exitVia, lastCycle,
                 sigtermAt, cycleBeganWithTerm, hist >>

initVars == << initPc, preload, cfgWorkerCount, cfgRejected,
               cachemgr_worker_count, i >>

launchVars == << launchPc, launchArg, worker, handle, hostStatus,
                 reportedPid, status,
                 pid, result, launches, errcodeSeen >>

vars == << workerVars, initVars, registry, launchVars >>

----------------------------------------------------------------------------
(* Program constants *)

SleepBoot == 10
SleepMin == 1
INT_MAX == 2147483647
WorkerCountBoot == 1
WorkerCountMin == 1
WorkerCountMax == 50
MyProcPid == 4242

(* Bounds of the model *)

MaxSleepEdit == 2      \* the config file may hold 0..MaxSleepEdit, 10, INT_MAX
MaxCfgOver == 2        \* configured worker_count ranges to 50 + MaxCfgOver
MaxLaunchIndex == 2    \* cachemgr_launch is called with -1..MaxLaunchIndex
MaxLaunches == 2       \* number of cachemgr_launch calls in a behaviour
MaxPid == 2            \* the host reports pids 1..MaxPid

----------------------------------------------------------------------------
(* Wait reasons and WaitLatch *)

WL_LATCH_SET == "WL_LATCH_SET"
WL_TIMEOUT == "WL_TIMEOUT"
WL_POSTMASTER_DEATH == "WL_POSTMASTER_DEATH"

\* A long value too wide for one machine word of the checker, kept as
\* hi * 2^16 + lo with 0 <= lo < 2^16.
Wide(h, l) == [ hi |-> h, lo |-> l ]

\* cachemgr_sleep_time * 1000L, for 0 <= v <= INT_MAX, in a 64 bit long.
TimeoutMs(v) ==
    LET low == (v % 65536) * 1000
    IN  Wide((v \div 65536) * 1000 + (low \div 65536), low % 65536)

\* Values the configuration file may hold for cachemgr.sleep_time.
FileSleepValues == (0 .. MaxSleepEdit) \cup {SleepBoot, INT_MAX}

\* The GUC check of cachemgr.sleep_time: min 1, max INT_MAX.
SleepValid(v) == v >= SleepMin /\ v <= INT_MAX

\* The reasons WaitLatch( MyLatch, WL_LATCH_SET | WL_TIMEOUT |
\* WL_POSTMASTER_DEATH, timeout ) may return in the current state.  A set
\* latch makes the wait return at once with WL_LATCH_SET alone; otherwise
\* the wait ends by the timeout or, the postmaster being dead, by
\* WL_POSTMASTER_DEATH.
WaitLatch ==
    IF latch THEN { {WL_LATCH_SET} }
    ELSE IF postmasterAlive THEN { {WL_TIMEOUT} }
         ELSE { {WL_POSTMASTER_DEATH} }

Running == pc \notin {"start", "exited"}

NoContext == ~xactOpen /\ ~spiConnected /\ ~snapshotActive

\* The history of the worker: the steps of the current loop iteration in
\* their order (iter, emptied by each test of the while condition), the
\* connections made and warm-up passes begun, whether a wait was ever
\* called, whether a SIGHUP was delivered that no reload has followed, and
\* the waits called and cycles begun with got_sigterm set.
HistInit ==
    [ iter |-> << >>, connections |-> 0, initPasses |-> 0,
      everWaited |-> FALSE, hupPending |-> FALSE,
      waitsAfterTerm |-> 0, cyclesAfterTerm |-> 0 ]

\* hist with event e appended to the steps of the iteration.
Logged(e) == [ hist EXCEPT !.iter = Append(@, e) ]

----------------------------------------------------------------------------
(* Signal handlers.  A handler runs to its end before the interrupted      *)
(* code continues, so each is one step.                                    *)

cachemgr_sigterm_NoSetLatch ==
    /\ Running
    /\ got_sigterm' = TRUE
    /\ sigtermAt' = IF sigtermAt = "none" THEN pc ELSE sigtermAt
    /\ UNCHANGED << pc, got_sighup, latch, rc, waitTimeout,
                    cachemgr_sleep_time, fileSleep, postmasterAlive, xactOpen,
                    spiConnected, snapshotActive, exitStatus, exitVia,
                    lastCycle, cycleBeganWithTerm >>
    /\ UNCHANGED hist
    /\ UNCHANGED << initVars, registry, launchVars >>

cachemgr_sigterm ==
    /\ Running
    /\ got_sigterm' = TRUE
    /\ latch' = TRUE
    /\ sigtermAt' = IF sigtermAt = "none" THEN pc ELSE sigtermAt
    /\ UNCHANGED << pc, got_sighup, rc, waitTimeout, cachemgr_sleep_time,
                    fileSleep, postmasterAlive, xactOpen, spiConnected,
                    snapshotActive, exitStatus, exitVia, lastCycle,
                    cycleBeganWithTerm >>
    /\ UNCHANGED hist
    /\ UNCHANGED << initVars, registry, launchVars >>

cachemgr_sighup_NoSetLatch ==
    /\ Running
    /\ got_sighup' = TRUE
    /\ UNCHANGED << pc, got_sigterm, latch, rc, waitTimeout,
                    cachemgr_sleep_time, fileSleep, postmasterAlive, xactOpen,
                    spiConnected, snapshotActive, exitStatus, exitVia,
                    lastCycle, sigtermAt, cycleBeganWithTerm >>
    /\ hist' = [ hist EXCEPT !.hupPending = TRUE ]
    /\ UNCHANGED << initVars, registry, launchVars >>

cachemgr_sighup ==
    /\ Running
    /\ got_sighup' = TRUE
    /\ latch' = TRUE
    /\ UNCHANGED << pc, got_sigterm, rc, waitTimeout, cachemgr_sleep_time,
                    fileSleep, postmasterAlive, xactOpen, spiConnected,
                    snapshotActive, exitStatus, exitVia, lastCycle, sigtermAt,
                    cycleBeganWithTerm >>
    /\ hist' = [ hist EXCEPT !.hupPending = TRUE ]
    /\ UNCHANGED << initVars, registry, launchVars >>

----------------------------------------------------------------------------
(* The environment of the worker *)

\* The postmaster dies.
PostmasterDies ==
    /\ pc # "exited"
    /\ postmasterAlive
    /\ postmasterAlive' = FALSE
    /\ UNCHANGED << pc, got_sigterm, got_sighup, latch, rc, waitTimeout,
                    cachemgr_sleep_time, fileSleep, xactOpen, spiConnected,
                    snapshotActive, exitStatus, exitVia, lastCycle, sigtermAt,
                    cycleBeganWithTerm >>
    /\ UNCHANGED hist
    /\ UNCHANGED << initVars, registry, launchVars >>

\* An administrator writes another cachemgr.sleep_time to the config file.
EditConfigFile ==
    /\ pc # "exited"
    /\ \E v \in FileSleepValues :
          /\ v # fileSleep
          /\ fileSleep' = v
    /\ UNCHANGED << pc, got_sigterm, got_sighup, latch, rc, waitTimeout,
                    cachemgr_sleep_time, postmasterAlive, xactOpen,
                    spiConnected, snapshotActive, exitStatus, exitVia,
                    lastCycle, sigtermAt, cycleBeganWithTerm >>
    /\ UNCHANGED hist
    /\ UNCHANGED << initVars, registry, launchVars >>

----------------------------------------------------------------------------
(* cachemgr_main *)

\* A step of the worker that only moves it from one position to the next.
Goto(from, to) ==
    /\ pc = from
    /\ pc' = to

\* pqsignal x 2, BackgroundWorkerUnblockSignals,
\* BackgroundWorkerInitializeConnection
Startup ==
    /\ Goto("start", "init_begin")
    /\ UNCHANGED << got_sigterm, got_sighup, latch, rc, waitTimeout,
                    cachemgr_sleep_time, fileSleep, postmasterAlive, xactOpen,
                    spiConnected, snapshotActive, exitStatus, exitVia,
                    lastCycle, sigtermAt, cycleBeganWithTerm >>
    /\ hist' = [ hist EXCEPT !.connections = @ + 1 ]
    /\ UNCHANGED << initVars, registry, launchVars >>

\* initialize_cachemgr: StartTransactionCommand, SPI_connect,
\* PushActiveSnapshot
InitBegin ==
    /\ Goto("init_begin", "init_work")
    /\ xactOpen' = TRUE
    /\ spiConnected' = TRUE
    /\ snapshotActive' = TRUE
    /\ UNCHANGED << got_sigterm, got_sighup, latch, rc, waitTimeout,
                    cachemgr_sleep_time, fileSleep, postmasterAlive,
                    exitStatus, exitVia, lastCycle, sigtermAt,
                    cycleBeganWithTerm >>
    /\ hist' = [ hist EXCEPT !.initPasses = @ + 1 ]
    /\ UNCHANGED << initVars, registry, launchVars >>

\* initialize_cachemgr: the (empty) initialization work
InitWork ==
    /\ Goto("init_work", "init_end")
    /\ UNCHANGED << got_sigterm, got_sighup, latch, rc, waitTimeout,
                    cachemgr_sleep_time, fileSleep, postmasterAlive, xactOpen,
                    spiConnected, snapshotActive, exitStatus, exitVia,
                    lastCycle, sigtermAt, cycleBeganWithTerm >>
    /\ UNCHANGED hist
    /\ UNCHANGED << initVars, registry, launchVars >>

InitEnd_IntoLoopBody ==
    /\ Goto("init_end", "wait_call")
    /\ spiConnected' = FALSE
    /\ snapshotActive' = FALSE
    /\ xactOpen' = FALSE
    /\ UNCHANGED << got_sigterm, got_sighup, latch, rc, waitTimeout,
                    cachemgr_sleep_time, fileSleep, postmasterAlive,
                    exitStatus, exitVia, lastCycle, sigtermAt,
                    cycleBeganWithTerm >>
    /\ UNCHANGED hist
    /\ UNCHANGED << initVars, registry, launchVars >>

\* initialize_cachemgr: SPI_finish, PopActiveSnapshot,
\* CommitTransactionCommand
InitEnd ==
    /\ Goto("init_end", "loop")
    /\ spiConnected' = FALSE
    /\ snapshotActive' = FALSE
    /\ xactOpen' = FALSE
    /\ UNCHANGED << got_sigterm, got_sighup, latch, rc, waitTimeout,
                    cachemgr_sleep_time, fileSleep, postmasterAlive,
                    exitStatus, exitVia, lastCycle, sigtermAt,
                    cycleBeganWithTerm >>
    /\ UNCHANGED hist
    /\ UNCHANGED << initVars, registry, launchVars >>

LoopCheck_Forever ==
    /\ Goto("loop", "wait_call")
    /\ UNCHANGED << got_sigterm, got_sighup, latch, rc, waitTimeout,
                    cachemgr_sleep_time, fileSleep, postmasterAlive, xactOpen,
                    spiConnected, snapshotActive, exitStatus, exitVia,
                    lastCycle, sigtermAt, cycleBeganWithTerm >>
    /\ hist' = [ hist EXCEPT !.iter = << "read_term" >> ]
    /\ UNCHANGED << initVars, registry, launchVars >>

\* while( !got_sigterm )
LoopCheck ==
    /\ Goto("loop", IF got_sigterm THEN "loop_exit" ELSE "wait_call")
    /\ UNCHANGED << got_sigterm, got_sighup, latch, rc, waitTimeout,
                    cachemgr_sleep_time, fileSleep, postmasterAlive, xactOpen,
                    spiConnected, snapshotActive, exitStatus, exitVia,
                    lastCycle, sigtermAt, cycleBeganWithTerm >>
    /\ hist' = [ hist EXCEPT !.iter = << "read_term" >> ]
    /\ UNCHANGED << initVars, registry, launchVars >>

\* proc_exit( 1 ) after the loop
LoopExit ==
    /\ Goto("loop_exit", "exited")
    /\ exitStatus' = 1
    /\ exitVia' = "loop"
    /\ UNCHANGED << got_sigterm, got_sighup, latch, rc, waitTimeout,
                    cachemgr_sleep_time, fileSleep, postmasterAlive, xactOpen,
                    spiConnected, snapshotActive, lastCycle, sigtermAt,
                    cycleBeganWithTerm >>
    /\ UNCHANGED hist
    /\ UNCHANGED << initVars, registry, launchVars >>

WaitLatchCall_ReadFile ==
    /\ Goto("wait_call", "waiting")
    /\ waitTimeout' = TimeoutMs(IF SleepValid(fileSleep) THEN fileSleep
                                ELSE cachemgr_sleep_time)
    /\ UNCHANGED << got_sigterm, got_sighup, latch, rc, cachemgr_sleep_time,
                    fileSleep, postmasterAlive, xactOpen, spiConnected,
                    snapshotActive, exitStatus, exitVia, lastCycle, sigtermAt,
                    cycleBeganWithTerm >>
    /\ hist' = [ Logged("wait") EXCEPT
                  !.everWaited = TRUE,
                  !.waitsAfterTerm = IF got_sigterm THEN @ + 1 ELSE @ ]
    /\ UNCHANGED << initVars, registry, launchVars >>

\* The call of WaitLatch: its timeout argument is evaluated.
WaitLatchCall ==
    /\ Goto("wait_call", "waiting")
    /\ waitTimeout' = TimeoutMs(cachemgr_sleep_time)
    /\ UNCHANGED << got_sigterm, got_sighup, latch, rc, cachemgr_sleep_time,
                    fileSleep, postmasterAlive, xactOpen, spiConnected,
                    snapshotActive, exitStatus, exitVia, lastCycle, sigtermAt,
                    cycleBeganWithTerm >>
    /\ hist' = [ Logged("wait") EXCEPT
                  !.everWaited = TRUE,
                  !.waitsAfterTerm = IF got_sigterm THEN @ + 1 ELSE @ ]
    /\ UNCHANGED << initVars, registry, launchVars >>

\* The return of WaitLatch: rc = WaitLatch( ... )
WaitLatchReturn ==
    /\ Goto("waiting", "reset")
    /\ rc' \in WaitLatch
    /\ UNCHANGED << got_sigterm, got_sighup, latch, waitTimeout,
                    cachemgr_sleep_time, fileSleep, postmasterAlive, xactOpen,
                    spiConnected, snapshotActive, exitStatus, exitVia,
                    lastCycle, sigtermAt, cycleBeganWithTerm >>
    /\ UNCHANGED hist
    /\ UNCHANGED << initVars, registry, launchVars >>

\* ResetLatch( MyLatch )
ResetLatch ==
    /\ Goto("reset", "pm_check")
    /\ latch' = FALSE
    /\ UNCHANGED << got_sigterm, got_sighup, rc, waitTimeout,
                    cachemgr_sleep_time, fileSleep, postmasterAlive, xactOpen,
                    spiConnected, snapshotActive, exitStatus, exitVia,
                    lastCycle, sigtermAt, cycleBeganWithTerm >>
    /\ hist' = Logged("reset")
    /\ UNCHANGED << initVars, registry, launchVars >>

PostmasterCheck_UnlessTerm ==
    /\ pc = "pm_check"
    /\ IF WL_POSTMASTER_DEATH \in rc /\ ~got_sigterm
          THEN pc' = "exited" /\ exitStatus' = 1 /\ exitVia' = "postmaster"
          ELSE pc' = "cfi" /\ UNCHANGED << exitStatus, exitVia >>
    /\ UNCHANGED << got_sigterm, got_sighup, latch, rc, waitTimeout,
                    cachemgr_sleep_time, fileSleep, postmasterAlive, xactOpen,
                    spiConnected, snapshotActive, lastCycle, sigtermAt,
                    cycleBeganWithTerm >>
    /\ UNCHANGED hist
    /\ UNCHANGED << initVars, registry, launchVars >>

\* if( rc & WL_POSTMASTER_DEATH ) proc_exit( 1 );
PostmasterCheck ==
    /\ pc = "pm_check"
    /\ IF WL_POSTMASTER_DEATH \in rc
          THEN pc' = "exited" /\ exitStatus' = 1 /\ exitVia' = "postmaster"
          ELSE pc' = "cfi" /\ UNCHANGED << exitStatus, exitVia >>
    /\ UNCHANGED << got_sigterm, got_sighup, latch, rc, waitTimeout,
                    cachemgr_sleep_time, fileSleep, postmasterAlive, xactOpen,
                    spiConnected, snapshotActive, lastCycle, sigtermAt,
                    cycleBeganWithTerm >>
    /\ UNCHANGED hist
    /\ UNCHANGED << initVars, registry, launchVars >>

\* CHECK_FOR_INTERRUPTS(): SIGTERM and SIGHUP are taken by the worker's own
\* handlers, which raise no interrupt, so nothing is pending here.
CheckForInterrupts ==
    /\ Goto("cfi", "hup_check")
    /\ UNCHANGED << got_sigterm, got_sighup, latch, rc, waitTimeout,
                    cachemgr_sleep_time, fileSleep, postmasterAlive, xactOpen,
                    spiConnected, snapshotActive, exitStatus, exitVia,
                    lastCycle, sigtermAt, cycleBeganWithTerm >>
    /\ UNCHANGED hist
    /\ UNCHANGED << initVars, registry, launchVars >>

SighupCheck_Always ==
    /\ Goto("hup_check", "hup_clear")
    /\ UNCHANGED << got_sigterm, got_sighup, latch, rc, waitTimeout,
                    cachemgr_sleep_time, fileSleep, postmasterAlive, xactOpen,
                    spiConnected, snapshotActive, exitStatus, exitVia,
                    lastCycle, sigtermAt, cycleBeganWithTerm >>
    /\ hist' = Logged("read_hup")
    /\ UNCHANGED << initVars, registry, launchVars >>

\* if( got_sighup )
SighupCheck ==
    /\ Goto("hup_check", IF got_sighup THEN "hup_clear" ELSE "cyc_begin")
    /\ UNCHANGED << got_sigterm, got_sighup, latch, rc, waitTimeout,
                    cachemgr_sleep_time, fileSleep, postmasterAlive, xactOpen,
                    spiConnected, snapshotActive, exitStatus, exitVia,
                    lastCycle, sigtermAt, cycleBeganWithTerm >>
    /\ hist' = Logged("read_hup")
    /\ UNCHANGED << initVars, registry, launchVars >>

\* got_sighup = false;
SighupClear ==
    /\ Goto("hup_clear", "reload")
    /\ got_sighup' = FALSE
    /\ UNCHANGED << got_sigterm, latch, rc, waitTimeout, cachemgr_sleep_time,
                    fileSleep, postmasterAlive, xactOpen, spiConnected,
                    snapshotActive, exitStatus, exitVia, lastCycle, sigtermAt,
                    cycleBeganWithTerm >>
    /\ hist' = Logged("clear_hup")
    /\ UNCHANGED << initVars, registry, launchVars >>

\* ProcessConfigFile( PGC_SIGHUP ): a valid value of the file is assigned
\* to the GUC variable, an invalid one leaves the variable as it is.
ProcessConfigFile ==
    /\ Goto("reload", "cyc_begin")
    /\ cachemgr_sleep_time' =
          IF SleepValid(fileSleep) THEN fileSleep ELSE cachemgr_sleep_time
    /\ UNCHANGED << got_sigterm, got_sighup, latch, rc, waitTimeout,
                    fileSleep, postmasterAlive, xactOpen, spiConnected,
                    snapshotActive, exitStatus, exitVia, lastCycle, sigtermAt,
                    cycleBeganWithTerm >>
    /\ hist' = [ Logged("reload") EXCEPT !.hupPending = FALSE ]
    /\ UNCHANGED << initVars, registry, launchVars >>

\* SetCurrentStatementStartTimestamp, StartTransactionCommand, SPI_connect,
\* PushActiveSnapshot, pgstat_report_activity( STATE_RUNNING )
CycleBegin ==
    /\ Goto("cyc_begin", "cyc_work")
    /\ xactOpen' = TRUE
    /\ spiConnected' = TRUE
    /\ snapshotActive' = TRUE
    /\ lastCycle' = "open"
    /\ cycleBeganWithTerm' = got_sigterm
    /\ UNCHANGED << got_sigterm, got_sighup, latch, rc, waitTimeout,
                    cachemgr_sleep_time, fileSleep, postmasterAlive,
                    exitStatus, exitVia, sigtermAt >>
    /\ hist' = [ Logged("begin") EXCEPT
                  !.cyclesAfterTerm = IF got_sigterm THEN @ + 1 ELSE @ ]
    /\ UNCHANGED << initVars, registry, launchVars >>

\* The unit of work of the cycle (empty in the source).
CycleWork ==
    /\ Goto("cyc_work", "cyc_end")
    /\ UNCHANGED << got_sigterm, got_sighup, latch, rc, waitTimeout,
                    cachemgr_sleep_time, fileSleep, postmasterAlive, xactOpen,
                    spiConnected, snapshotActive, exitStatus, exitVia,
                    lastCycle, sigtermAt, cycleBeganWithTerm >>
    /\ UNCHANGED hist
    /\ UNCHANGED << initVars, registry, launchVars >>

CycleEnd_NoCommit ==
    /\ Goto("cyc_end", "loop")
    /\ spiConnected' = FALSE
    /\ snapshotActive' = FALSE
    /\ lastCycle' = "committed"
    /\ UNCHANGED << got_sigterm, got_sighup, latch, rc, waitTimeout,
                    cachemgr_sleep_time, fileSleep, postmasterAlive, xactOpen,
                    exitStatus, exitVia, sigtermAt, cycleBeganWithTerm >>
    /\ hist' = Logged("commit")
    /\ UNCHANGED << initVars, registry, launchVars >>

\* SPI_finish, PopActiveSnapshot, CommitTransactionCommand,
\* pgstat_report_stat, pgstat_report_activity( STATE_IDLE )
CycleEnd ==
    /\ Goto("cyc_end", "loop")
    /\ spiConnected' = FALSE
    /\ snapshotActive' = FALSE
    /\ xactOpen' = FALSE
    /\ lastCycle' = "committed"
    /\ UNCHANGED << got_sigterm, got_sighup, latch, rc, waitTimeout,
                    cachemgr_sleep_time, fileSleep, postmasterAlive,
                    exitStatus, exitVia, sigtermAt, cycleBeganWithTerm >>
    /\ hist' = Logged("commit")
    /\ UNCHANGED << initVars, registry, launchVars >>

\* A unit of work that raises an error.  The cycle has no PG_TRY around it:
\* the error leaves cachemgr_main for the background worker's top-level
\* handler, which reports it and ends the process with status 1; the open
\* transaction is aborted on the way out.
CycleWorkFails ==
    /\ Goto("cyc_work", "exited")
    /\ exitStatus' = 1
    /\ exitVia' = "error"
    /\ spiConnected' = FALSE
    /\ snapshotActive' = FALSE
    /\ xactOpen' = FALSE
    /\ lastCycle' = "aborted"
    /\ UNCHANGED << got_sigterm, got_sighup, latch, rc, waitTimeout,
                    cachemgr_sleep_time, fileSleep, postmasterAlive,
                    sigtermAt, cycleBeganWithTerm >>
    /\ UNCHANGED hist
    /\ UNCHANGED << initVars, registry, launchVars >>

----------------------------------------------------------------------------
(* Worker specs handed to the host *)

\* snprintf( worker.bgw_name, BGW_MAXLEN, "cachemgr_%d", i ): the prefix
\* followed by the decimal form of the index, which is short of BGW_MAXLEN.
BgwName(n) == << "cachemgr_", n >>

\* The BackgroundWorker filled in by _PG_init and by cachemgr_launch.
WorkerSpec(n, notify) ==
    [ bgw_name          |-> BgwName(n),
      bgw_main_arg      |-> n,
      bgw_notify_pid    |-> notify,
      bgw_restart_time  |-> "BGW_NEVER_RESTART",
      bgw_start_time    |-> "BgWorkerStart_RecoveryFinished",
      bgw_function_name |-> "cachemgr_main" ]

NoWorker == [ bgw_name |-> << >>, bgw_main_arg |-> 0, bgw_notify_pid |-> 0,
              bgw_restart_time |-> "", bgw_start_time |-> "",
              bgw_function_name |-> "" ]

----------------------------------------------------------------------------
(* _PG_init *)

\* Values cachemgr.worker_count may be configured with.
CfgWorkerCounts == (0 - 1) .. (WorkerCountMax + MaxCfgOver)

\* The GUC check of cachemgr.worker_count: min 1, max 50.
WorkerCountValid(v) == v >= WorkerCountMin /\ v <= WorkerCountMax

\* i <= cachemgr_worker_count, with unsigned int i and the int converted to
\* unsigned for the comparison: a negative int is above every i < 2^31.
UnsignedLessEq(u, v) == IF v < 0 THEN TRUE ELSE u <= v
UnsignedLess(u, v) == IF v < 0 THEN TRUE ELSE u < v

\* DefineCustomIntVariable( "cachemgr.sleep_time", ... )
DefineSleepTime ==
    /\ initPc = "start"
    /\ initPc' = "preload_check"
    /\ UNCHANGED << preload, cfgWorkerCount, cfgRejected,
                    cachemgr_worker_count, i, registry >>
    /\ UNCHANGED << workerVars, launchVars >>

\* if( !process_shared_preload_libraries_in_progress ) return;
PreloadCheck ==
    /\ initPc = "preload_check"
    /\ initPc' = IF preload THEN "define_count" ELSE "done"
    /\ UNCHANGED << preload, cfgWorkerCount, cfgRejected,
                    cachemgr_worker_count, i, registry >>
    /\ UNCHANGED << workerVars, launchVars >>

\* DefineCustomIntVariable( "cachemgr.worker_count", ..., 1, 1, 50,
\* PGC_POSTMASTER, ... ): a configured value in range is assigned, a value
\* out of range is refused and the boot value stays.
DefineWorkerCount ==
    /\ initPc = "define_count"
    /\ initPc' = "setup"
    /\ cfgRejected' = ~WorkerCountValid(cfgWorkerCount)
    /\ cachemgr_worker_count' =
          IF WorkerCountValid(cfgWorkerCount) THEN cfgWorkerCount
          ELSE WorkerCountBoot
    /\ UNCHANGED << preload, cfgWorkerCount, i, registry >>
    /\ UNCHANGED << workerVars, launchVars >>

\* memset, bgw_flags .. bgw_notify_pid = 0, and the loop's i = 1
SetupWorker ==
    /\ initPc = "setup"
    /\ initPc' = "register"
    /\ i' = 1
    /\ UNCHANGED << preload, cfgWorkerCount, cfgRejected,
                    cachemgr_worker_count, registry >>
    /\ UNCHANGED << workerVars, launchVars >>

RegisterLoop_OffByOne ==
    /\ initPc = "register"
    /\ IF UnsignedLess(i, cachemgr_worker_count)
          THEN /\ registry' = Append(registry, WorkerSpec(i, 0))
               /\ i' = i + 1
               /\ UNCHANGED initPc
          ELSE /\ initPc' = "done"
               /\ UNCHANGED << i, registry >>
    /\ UNCHANGED << preload, cfgWorkerCount, cfgRejected,
                    cachemgr_worker_count >>
    /\ UNCHANGED << workerVars, launchVars >>

\* for( i = 1; i <= cachemgr_worker_count; i++ ) { snprintf( bgw_name ),
\* bgw_main_arg = i, RegisterBackgroundWorker( &worker ) }
RegisterLoop ==
    /\ initPc = "register"
    /\ IF UnsignedLessEq(i, cachemgr_worker_count)
          THEN /\ registry' = Append(registry, WorkerSpec(i, 0))
               /\ i' = i + 1
               /\ UNCHANGED initPc
          ELSE /\ initPc' = "done"
               /\ UNCHANGED << i, registry >>
    /\ UNCHANGED << preload, cfgWorkerCount, cfgRejected,
                    cachemgr_worker_count >>
    /\ UNCHANGED << workerVars, launchVars >>

----------------------------------------------------------------------------
(* cachemgr_launch *)

BGWH_STARTED == "BGWH_STARTED"
BGWH_NOT_YET_STARTED == "BGWH_NOT_YET_STARTED"
BGWH_STOPPED == "BGWH_STOPPED"
BGWH_POSTMASTER_DIED == "BGWH_POSTMASTER_DIED"

\* The statuses WaitForBackgroundWorkerStartup returns.
StartupStatuses == { BGWH_STARTED, BGWH_STOPPED, BGWH_POSTMASTER_DIED }

ERRCODE_INSUFFICIENT_RESOURCES == "ERRCODE_INSUFFICIENT_RESOURCES"

Pids == 1 .. MaxPid
LaunchIndices == (0 - 1) .. MaxLaunchIndex

\* What a call gives its caller.
ReturnNull == [ kind |-> "null", pid |-> 0, errcode |-> "", errmsg |-> "" ]
ReturnInt32(p) == [ kind |-> "int32", pid |-> p, errcode |-> "", errmsg |-> "" ]
Ereport(code, msg) ==
    [ kind |-> "error", pid |-> 0, errcode |-> code, errmsg |-> msg ]
AssertFailure ==
    [ kind |-> "assert_failure", pid |-> 0, errcode |-> "", errmsg |-> "" ]
NoResult == [ kind |-> "none", pid |-> 0, errcode |-> "", errmsg |-> "" ]

LaunchResult_PidAlways(st, p) ==
    IF st = BGWH_POSTMASTER_DIED
       THEN Ereport(ERRCODE_INSUFFICIENT_RESOURCES,
                    "Cannot start background process without postmaster")
       ELSE ReturnInt32(p)

\* The part of cachemgr_launch after the wait: the two ereports, the Assert
\* and the PG_RETURN_INT32.
LaunchResult(st, p) ==
    IF st = BGWH_STOPPED
       THEN Ereport(ERRCODE_INSUFFICIENT_RESOURCES,
                    "Could not start background process")
    ELSE IF st = BGWH_POSTMASTER_DIED
       THEN Ereport(ERRCODE_INSUFFICIENT_RESOURCES,
                    "Cannot start background process without postmaster")
    ELSE IF st # BGWH_STARTED
       THEN AssertFailure
    ELSE ReturnInt32(p)

\* The call: PG_GETARG_INT32( 0 ), memset and the fields of worker,
\* bgw_notify_pid = MyProcPid.  pid is a local that nothing has set yet.
LaunchCall ==
    /\ launchPc = "idle"
    /\ launches < MaxLaunches
    /\ \E n \in LaunchIndices :
          /\ launchArg' = n
          /\ worker' = WorkerSpec(n, MyProcPid)
    /\ \E garbage \in Pids : pid' = garbage
    /\ handle' = FALSE
    /\ status' = BGWH_NOT_YET_STARTED
    /\ hostStatus' = BGWH_NOT_YET_STARTED
    /\ result' = NoResult
    /\ launchPc' = "register"
    /\ UNCHANGED << reportedPid, launches, errcodeSeen, registry >>
    /\ UNCHANGED << workerVars, initVars >>

RegisterDynamic_Unchecked ==
    /\ launchPc = "register"
    /\ \E accepted \in BOOLEAN :
          /\ registry' = IF accepted THEN Append(registry, worker)
                         ELSE registry
          /\ handle' = accepted
          /\ launchPc' = "wait"
          /\ UNCHANGED result
    /\ UNCHANGED << launchArg, worker, hostStatus, reportedPid, status, pid,
                    launches, errcodeSeen >>
    /\ UNCHANGED << workerVars, initVars >>

\* if( !RegisterDynamicBackgroundWorker( &worker, &handle ) )
\*     PG_RETURN_NULL();
\* The host takes the worker or refuses it (no free slot).
RegisterDynamic ==
    /\ launchPc = "register"
    /\ \E accepted \in BOOLEAN :
          IF accepted
             THEN /\ registry' = Append(registry, worker)
                  /\ handle' = TRUE
                  /\ launchPc' = "wait"
                  /\ UNCHANGED result
             ELSE /\ result' = ReturnNull
                  /\ launchPc' = "done"
                  /\ UNCHANGED << registry, handle >>
    /\ UNCHANGED << launchArg, worker, hostStatus, reportedPid, status, pid,
                    launches, errcodeSeen >>
    /\ UNCHANGED << workerVars, initVars >>

\* The host settles the fate of the new worker: it has started (with a
\* pid), it has stopped, or the postmaster has died.
HostReports ==
    /\ launchPc = "wait"
    /\ hostStatus = BGWH_NOT_YET_STARTED
    /\ \E st \in StartupStatuses, p \in Pids :
          /\ hostStatus' = st
          /\ reportedPid' = IF st = BGWH_STARTED THEN p ELSE 0
    /\ UNCHANGED << launchPc, launchArg, worker, handle, status, pid, result,
                    launches, errcodeSeen, registry >>
    /\ UNCHANGED << workerVars, initVars >>

\* status = WaitForBackgroundWorkerStartup( handle, &pid ): blocks while the
\* worker has not yet started, then returns its status, and its pid when it
\* has started.
WaitForStartup ==
    /\ launchPc = "wait"
    /\ hostStatus # BGWH_NOT_YET_STARTED
    /\ status' = hostStatus
    /\ pid' = IF hostStatus = BGWH_STARTED THEN reportedPid ELSE pid
    /\ launchPc' = "outcome"
    /\ UNCHANGED << launchArg, worker, handle, hostStatus, reportedPid,
                    result, launches, errcodeSeen, registry >>
    /\ UNCHANGED << workerVars, initVars >>

\* The two ereports, the Assert and the return.
LaunchOutcome ==
    /\ launchPc = "outcome"
    /\ result' = LaunchResult(status, pid)
    /\ errcodeSeen' =
          IF result'.kind = "error"
             THEN [ errcodeSeen EXCEPT ![status] = result'.errcode ]
             ELSE errcodeSeen
    /\ launchPc' = "done"
    /\ UNCHANGED << launchArg, worker, handle, hostStatus, reportedPid,
                    status, pid, launches, registry >>
    /\ UNCHANGED << workerVars, initVars >>

\* The caller has its answer; the backend may call again.
LaunchDone ==
    /\ launchPc = "done"
    /\ launchPc' = "idle"
    /\ launches' = launches + 1
    /\ UNCHANGED << launchArg, worker, handle, hostStatus, reportedPid,
                    status, pid, result, errcodeSeen, registry >>
    /\ UNCHANGED << workerVars, initVars >>

----------------------------------------------------------------------------
(* Initial states and specifications *)

WorkerIdle ==
    /\ pc = "start"
    /\ got_sigterm = FALSE
    /\ got_sighup = FALSE
    /\ latch = FALSE
    /\ rc = {}
    /\ waitTimeout = Wide(0, 0)
    /\ postmasterAlive = TRUE
    /\ xactOpen = FALSE
    /\ spiConnected = FALSE
    /\ snapshotActive = FALSE
    /\ exitStatus = 0 - 1
    /\ exitVia = "none"
    /\ lastCycle = "none"
    /\ sigtermAt = "none"
    /\ cycleBeganWithTerm = FALSE
    /\ hist = HistInit

InitIdle ==
    /\ initPc = "start"
    /\ cfgRejected = FALSE
    /\ cachemgr_worker_count = WorkerCountBoot
    /\ i = 0

LaunchIdle ==
    /\ launchPc = "idle"
    /\ launchArg = 0
    /\ worker = NoWorker
    /\ handle = FALSE
    /\ hostStatus = BGWH_NOT_YET_STARTED
    /\ reportedPid = 0
    /\ status = BGWH_NOT_YET_STARTED
    /\ pid = 0
    /\ result = NoResult
    /\ launches = 0
    /\ errcodeSeen = [ st \in StartupStatuses |-> "" ]

\* The worker as the postmaster starts it: the GUC variable holds the value
\* the postmaster loaded, the file may have been edited since.
Init ==
    /\ WorkerIdle
    /\ cachemgr_sleep_time \in { v \in FileSleepValues : SleepValid(v) }
    /\ fileSleep \in FileSleepValues
    /\ InitIdle /\ preload = TRUE /\ cfgWorkerCount = WorkerCountBoot
    /\ registry = << >>
    /\ LaunchIdle

WorkerStep ==
    \/ Startup
    \/ InitBegin
    \/ InitWork
    \/ InitEnd
    \/ LoopCheck
    \/ LoopExit
    \/ WaitLatchCall
    \/ WaitLatchReturn
    \/ ResetLatch
    \/ PostmasterCheck
    \/ CheckForInterrupts
    \/ SighupCheck
    \/ SighupClear
    \/ ProcessConfigFile
    \/ CycleBegin
    \/ CycleWork
    \/ CycleEnd

Next ==
    \/ WorkerStep
    \/ cachemgr_sigterm
    \/ cachemgr_sighup
    \/ PostmasterDies
    \/ EditConfigFile

Spec == Init /\ [][Next]_vars

\* The worker loop with a unit of work that may raise an error.
NextFail ==
    \/ Next
    \/ CycleWorkFails

SpecFail == Init /\ [][NextFail]_vars

\* The worker loop with the scheduling of the worker process: the worker
\* is not held up for ever, and a wait ends (by the latch, by the death of
\* the postmaster or by its finite timeout).  Signals, the postmaster and
\* the administrator owe nothing.
SpecLive == Init /\ [][Next]_vars /\ WF_vars(WorkerStep)

\* _PG_init, for every configured worker count and both load phases.
InitPG ==
    /\ WorkerIdle
    /\ cachemgr_sleep_time = SleepBoot
    /\ fileSleep = SleepBoot
    /\ InitIdle
    /\ preload \in BOOLEAN
    /\ cfgWorkerCount \in CfgWorkerCounts
    /\ registry = << >>
    /\ LaunchIdle

NextPG ==
    \/ DefineSleepTime
    \/ PreloadCheck
    \/ DefineWorkerCount
    \/ SetupWorker
    \/ RegisterLoop

SpecInit == InitPG /\ [][NextPG]_vars

\* cachemgr_launch, called from a backend up to MaxLaunches times.
InitLaunch ==
    /\ WorkerIdle
    /\ cachemgr_sleep_time = SleepBoot
    /\ fileSleep = SleepBoot
    /\ InitIdle /\ preload = FALSE /\ cfgWorkerCount = WorkerCountBoot
    /\ registry = << >>
    /\ LaunchIdle

NextLaunch ==
    \/ LaunchCall
    \/ RegisterDynamic
    \/ HostReports
    \/ WaitForStartup
    \/ LaunchOutcome
    \/ LaunchDone

SpecLaunch == InitLaunch /\ [][NextLaunch]_vars

\* The pool: _PG_init at the start of the server, then calls of
\* cachemgr_launch from backends; the host keeps one list of workers.
LaunchInPool ==
    /\ initPc = "done"
    /\ NextLaunch

NextPool ==
    \/ NextPG
    \/ LaunchInPool

SpecPool == InitPG /\ [][NextPool]_vars

----------------------------------------------------------------------------
(* Properties *)

InCycle == { "cyc_work", "cyc_end" }

\* C1: a SIGTERM delivered while a work cycle is executing leaves the cycle
\* to run to its end: from then on the worker is in the rest of that cycle,
\* at the loop test or at the exit; once past the cycle its transaction is
\* committed and its context released, and the worker exits through the
\* loop test, having started no other wait and no other cycle.
C1_TermDuringCycleCompletes ==
    sigtermAt \in InCycle =>
        /\ pc \in InCycle \cup { "loop", "loop_exit", "exited" }
        /\ pc \notin InCycle => lastCycle = "committed" /\ NoContext
        /\ pc = "exited" => exitVia = "loop" /\ exitStatus = 1

C1_Witness ==
    /\ sigtermAt = "cyc_work"
    /\ pc = "exited"
    /\ lastCycle = "committed"

\* C2: no work cycle begins in a state where got_sigterm is already set.
C2_NoCycleBeginsAfterTermination ==
    pc \in InCycle => ~cycleBeganWithTerm

\* C3: no wake is lost: the worker is never in the wait with a flag set and
\* the latch clear, and a wait that ends while a flag is set returns
\* WL_LATCH_SET, not the timeout.
C3_NoLostWake ==
    /\ [](pc = "waiting" /\ (got_sigterm \/ got_sighup) => latch)
    /\ [][ pc = "waiting" /\ pc' = "reset" /\ (got_sigterm \/ got_sighup)
             => rc' = {WL_LATCH_SET} ]_vars

C3_Witness ==
    /\ sigtermAt = "wait_call"
    /\ pc = "reset"
    /\ rc = {WL_LATCH_SET}

\* C4: a wait that returned WL_POSTMASTER_DEATH is followed by the latch
\* reset, the test of rc and the exit, and by nothing else: no reload, no
\* work cycle; the exit status is not zero and no context is open, whatever
\* the two flags hold.
C4_PostmasterDeathExits ==
    WL_POSTMASTER_DEATH \in rc =>
        /\ pc \in { "reset", "pm_check", "exited" }
        /\ NoContext
        /\ pc = "exited" => exitStatus # 0 /\ exitVia = "postmaster"

C4_Witness ==
    /\ WL_POSTMASTER_DEATH \in rc
    /\ pc = "exited"
    /\ got_sigterm
    /\ got_sighup

\* C5: a failure of the unit of work does not end the worker: the worker
\* exits only by a termination request or by the death of the postmaster.
C5_FailureDoesNotTerminate ==
    pc = "exited" => exitVia \in { "loop", "postmaster" }

C7_DistinctErrorCodes ==
    errcodeSeen[BGWH_STOPPED] # "" /\ errcodeSeen[BGWH_POSTMASTER_DIED] # ""
        => errcodeSeen[BGWH_STOPPED] # errcodeSeen[BGWH_POSTMASTER_DIED]

NamesDistinct ==
    \A j, k \in 1 .. Len(registry) :
        j # k => registry[j].bgw_name # registry[k].bgw_name

\* C9: when _PG_init returns, a preload with a configured count N in 1..50
\* has registered N workers, the k-th with index k, with distinct names and
\* no notify pid; a count out of range was refused before the first
\* registration (the count used is then in range); outside the preload
\* phase nothing is registered.
C9_StaticRegistration ==
    /\ initPc = "done" /\ preload =>
          /\ WorkerCountValid(cfgWorkerCount) =>
                Len(registry) = cfgWorkerCount
          /\ \A k \in 1 .. Len(registry) :
                /\ registry[k].bgw_main_arg = k
                /\ registry[k].bgw_name = BgwName(k)
                /\ registry[k].bgw_notify_pid = 0
          /\ NamesDistinct
    /\ Len(registry) > 0 /\ ~WorkerCountValid(cfgWorkerCount) =>
          cfgRejected /\ WorkerCountValid(cachemgr_worker_count)
    /\ ~preload => registry = << >>

C9_Witness ==
    /\ initPc = "done"
    /\ preload
    /\ cfgWorkerCount = WorkerCountMax
    /\ Len(registry) = WorkerCountMax

\* C10: the timeout of a wait in progress is the one computed from the GUC
\* variable, which changes only in ProcessConfigFile (never in a wait or in
\* a cycle); the timeout itself is set only by the call of the wait.
C10_SleepTimeOnlyAtReload ==
    /\ [](pc = "waiting" => waitTimeout = TimeoutMs(cachemgr_sleep_time))
    /\ [][ cachemgr_sleep_time' # cachemgr_sleep_time => pc = "reload" ]_vars
    /\ [][ waitTimeout' # waitTimeout => pc = "wait_call" ]_vars

C10_Witness ==
    /\ pc = "waiting"
    /\ SleepValid(fileSleep)
    /\ fileSleep # cachemgr_sleep_time
    /\ waitTimeout = TimeoutMs(cachemgr_sleep_time)
    /\ got_sighup

InInitPass == { "init_work", "init_end" }

\* C11: the transaction, the SPI connection and the snapshot are open
\* together, and only inside the warm-up pass or a work cycle: in the wait,
\* in the reload, at the loop test and at both exits none is open, and a
\* pass or cycle begins only with none open (so at most one is open).
C11_NoContextBetweenCycles ==
    /\ pc \in InCycle \cup InInitPass =>
          xactOpen /\ spiConnected /\ snapshotActive
    /\ pc \notin InCycle \cup InInitPass => NoContext

C11_Witness ==
    /\ pc = "waiting"
    /\ lastCycle = "committed"
    /\ NoContext

\* The current loop iteration has done step e.
Did(e) == \E k \in 1 .. Len(hist.iter) : hist.iter[k] = e

\* C12: an iteration that reloads the configuration runs no work cycle: it
\* returns to the wait.
C12_ReloadSkipsCycle ==
    Did("reload") => ~Did("begin")

\* C13: the workers this module has handed to the host never number more
\* than the maximum worker count, 50.
C13_RegistryBounded ==
    Len(registry) <= WorkerCountMax

\* The value v itself as a long.
AsLong(v) == Wide(v \div 65536, v % 65536)

\* C14: the timeout of the wait is the configured cachemgr.sleep_time taken
\* in milliseconds, a value that fits a 32 bit long as the int does.
C14_TimeoutIsSleepTimeMs ==
    pc = "waiting" =>
        /\ waitTimeout = AsLong(cachemgr_sleep_time)
        /\ waitTimeout.hi < 32768

\* C15: the wait for the start of the new worker is bounded: while the
\* worker has not left its starting status the call can still go on by
\* itself (to report the timeout), it does not depend on the host.
C15_LaunchWaitBounded ==
    launchPc = "wait" /\ hostStatus = BGWH_NOT_YET_STARTED =>
        ENABLED WaitForStartup

\* Step e of the current iteration comes after a step d of it.
After(e, d) ==
    \A k \in 1 .. Len(hist.iter) :
        hist.iter[k] = e => \E j \in 1 .. (k - 1) : hist.iter[j] = d

\* C16: got_sighup is handled in the order read, act, clear: its clear
\* comes after its read and after the reload it triggers.
C16_ReadActClear ==
    /\ After("clear_hup", "read_hup")
    /\ After("clear_hup", "reload")

\* s is an initial part of t.
IsPrefix(s, t) ==
    /\ Len(s) <= Len(t)
    /\ \A k \in 1 .. Len(s) : s[k] = t[k]

\* The steps of an iteration that finds got_sighup set, and of one that
\* does not.
IterationWithReload ==
    << "read_term", "wait", "reset", "read_hup", "clear_hup", "reload",
       "begin", "commit" >>
IterationWithoutReload ==
    << "read_term", "wait", "reset", "read_hup", "begin", "commit" >>

\* C16 as amended: an iteration reads got_sigterm once (the while test) and
\* never clears it; it reads got_sighup once, after the latch reset, and,
\* having found it set, clears it once and then reloads: read, clear, act.
\* The flag is cleared nowhere else, so never before it has been read.
C16_ReadClearAct ==
    /\ [](\/ IsPrefix(hist.iter, IterationWithReload)
          \/ IsPrefix(hist.iter, IterationWithoutReload))
    /\ [](pc = "hup_clear" => got_sighup)
    /\ [][ got_sighup /\ ~got_sighup' => pc = "hup_clear" /\ pc' = "reload" ]_vars
    /\ [][ got_sigterm => got_sigterm' ]_vars

C16_Witness ==
    /\ pc = "cyc_begin"
    /\ Did("clear_hup")
    /\ Did("reload")
    /\ ~got_sighup

BeforeLoop == { "start", "init_begin", "init_work", "init_end" }

\* C17: the worker connects once and runs one warm-up pass, after the
\* connection (made in the step that installs the handlers) and before the
\* first wait and the first work cycle; a SIGTERM delivered before the
\* warm-up pass has finished makes the worker exit through the loop test
\* without any wait and without any work cycle.
C17_OneWarmUpPass ==
    /\ hist.connections = (IF pc = "start" THEN 0 ELSE 1)
    /\ hist.initPasses = (IF pc \in { "start", "init_begin" } THEN 0 ELSE 1)
    /\ pc \in BeforeLoop =>
          ~hist.everWaited /\ lastCycle = "none" /\ hist.iter = << >>
    /\ sigtermAt \in BeforeLoop =>
          /\ pc \in BeforeLoop \cup { "loop", "loop_exit", "exited" }
          /\ ~hist.everWaited
          /\ lastCycle = "none"
          /\ pc = "exited" => exitVia = "loop"

C17_Witness ==
    /\ sigtermAt = "init_work"
    /\ pc = "exited"
    /\ hist.initPasses = 1
    /\ ~hist.everWaited

\* The number of times the current iteration has done step e.
Times(e) == Cardinality({ k \in 1 .. Len(hist.iter) : hist.iter[k] = e })

\* C18: a SIGHUP delivered at any point is followed by a reload, unless
\* termination is requested or the postmaster dies; until then no wait of
\* the worker runs into its timeout; and all the SIGHUPs an iteration finds
\* give one reload.
C18_NoLostReload ==
    /\ hist.hupPending ~>
          (~hist.hupPending \/ got_sigterm \/ ~postmasterAlive)
    /\ [][ hist.hupPending /\ pc = "waiting" /\ pc' = "reset"
             => WL_TIMEOUT \notin rc' ]_vars
    /\ [](Times("reload") <= 1)

\* A SIGHUP delivered between the clear of the flag and the reload.
C18_Witness ==
    /\ hist.hupPending
    /\ pc = "reload"
    /\ got_sighup
    /\ latch
    /\ ~got_sigterm
    /\ postmasterAlive

\* C19: once SIGTERM is delivered the worker exits; with got_sigterm set it
\* begins at most one cycle and calls at most one wait, and no wait ends by
\* its timeout.
C19_BoundedTermination ==
    /\ got_sigterm ~> pc = "exited"
    /\ [](hist.cyclesAfterTerm <= 1 /\ hist.waitsAfterTerm <= 1)
    /\ [][ got_sigterm /\ pc = "waiting" /\ pc' = "reset"
             => WL_TIMEOUT \notin rc' ]_vars

C19_Witness ==
    /\ pc = "exited"
    /\ exitVia = "loop"
    /\ hist.cyclesAfterTerm = 1
    /\ hist.waitsAfterTerm = 1

====
